---- MODULE Spec2Model ----
(***************************************************************************)
(* Model of the auth-next-my-app authentication flow: the users table, the *)
(* bcrypt password hasher, the HS256 session token, the session cookie, the*)
(* route handlers sign-up / sign-in / logout / me and the middleware.      *)
(*                                                                         *)
(* Strings are sequences of one-character strings, so that startsWith,     *)
(* the validation regexes, toString/parseInt and bcrypt's key truncation   *)
(* are computed rather than assumed.  Time is counted in hours.            *)
(***************************************************************************)
EXTENDS Integers, Sequences, FiniteSets

VARIABLES env, clock, users, idSeq, salts, jar, granted, pending, last, registered

vars == <<env, clock, users, idSeq, salts, jar, granted, pending, last, registered>>

----------------------------------------------------------------------------
(* Bounds of the model                                                     *)

MaxClock == 32          \* the clock stops advancing here
GateStep == 8           \* hours one Tick adds under SpecGate
MaxUsers == 3           \* rows the users table may hold
Clients  == {"c1", "c2"}

----------------------------------------------------------------------------
(* Strings                                                                 *)

Upper   == {"A", "B", "X"}
Lower   == {"a", "b", "c", "d", "m", "o", "x", "y"}
Digits  == <<"0", "1", "2", "3", "4", "5", "6", "7", "8", "9">>
DigitCh == {Digits[i] : i \in 1..10}
Special == {"!", "@", ".", "/", "-"}
Space   == {" "}

StartsWith(s, p) == Len(p) <= Len(s) /\ SubSeq(s, 1, Len(p)) = p

HasChar(s, set) == \E i \in 1..Len(s) : s[i] \in set

AllChars(s, set) == \A i \in 1..Len(s) : s[i] \in set

Count(s, ch) == Cardinality({i \in 1..Len(s) : s[i] = ch})

\* Number.prototype.toString for a non-negative integer
RECURSIVE NumToString(_)
NumToString(n) == IF n < 10 THEN <<Digits[n + 1]>>
                  ELSE NumToString(n \div 10) \o <<Digits[(n % 10) + 1]>>

DigitVal(ch) == CHOOSE d \in 0..9 : Digits[d + 1] = ch

NaN == -1

\* parseInt: the longest prefix of decimal digits, NaN when there is none
RECURSIVE ParseDigits(_, _)
ParseDigits(s, acc) ==
    IF s = <<>> \/ Head(s) \notin DigitCh THEN acc
    ELSE ParseDigits(Tail(s), acc * 10 + DigitVal(Head(s)))

ParseInt(s) == IF s = <<>> \/ Head(s) \notin DigitCh THEN NaN ELSE ParseDigits(s, 0)

\* the strings requests are built from
EmailA   == <<"a", "@", "b", ".", "c", "o", "m">>
EmailB   == <<"c", "@", "d", ".", "c", "o", "m">>
EmailBad == <<"a", "b", ".", "c", "o", "m">>
NameAB   == <<"A", " ", "B">>
NameBad  == <<"A", "1">>
PwGood   == <<"A", "b", "c", "1", "2", "3", "!">>
PwWeak   == <<"a", "b", "c">>
PwEmpty  == <<>>
LongBase == [i \in 1..72 |-> IF i = 1 THEN "A" ELSE IF i = 2 THEN "!" ELSE "a"]
PwLongX  == LongBase \o <<"x">>
PwLongY  == LongBase \o <<"y">>


----------------------------------------------------------------------------
(* validations.ts                                                          *)

\* z.string().min(6).regex(/[A-Z]/).regex(/[special]/)
passwordSchema(p) == Len(p) >= 6 /\ HasChar(p, Upper) /\ HasChar(p, Special)

\* z.string().min(1).regex(/^[a-zA-Z\s]+$/)
nameSchema(n) == Len(n) >= 1 /\ AllChars(n, Upper \cup Lower \cup Space)

\* z.string().email(): one "@", a non-empty local part, a dotted domain
emailSchema(e) ==
    /\ Count(e, "@") = 1
    /\ LET at == CHOOSE i \in 1..Len(e) : e[i] = "@"
           dom == SubSeq(e, at + 1, Len(e))
       IN /\ at > 1
          /\ HasChar(dom, {"."})
          /\ dom[1] # "." /\ Len(dom) >= 4
          /\ dom[Len(dom)] \in Upper \cup Lower
          /\ dom[Len(dom) - 1] \in Upper \cup Lower

\* a sign-up handler that skips safeParse
signUpSchemaAny(b) == TRUE

signUpSchema(b) == nameSchema(b.name) /\ emailSchema(b.email) /\ passwordSchema(b.password)

\* a sign-in handler that skips safeParse
signInSchemaAny(b) == TRUE

signInSchema(b) == emailSchema(b.email) /\ Len(b.password) >= 1

----------------------------------------------------------------------------
(* Process environment                                                     *)

Unset == "undefined"

DefaultSecret == "your-secret-key-change-this-in-production"

Envs == { [JWT_SECRET |-> Unset, NODE_ENV |-> "development", POSTGRES_URL |-> Unset],
          [JWT_SECRET |-> "prod-secret", NODE_ENV |-> "production", POSTGRES_URL |-> "postgres"] }

Secrets == {DefaultSecret, "prod-secret", "other-secret"}

\* process.env.JWT_SECRET || 'your-secret-key-change-this-in-production'
key(e) == IF e.JWT_SECRET \in {Unset, ""} THEN DefaultSecret ELSE e.JWT_SECRET

isProduction(e) == e.POSTGRES_URL # Unset

----------------------------------------------------------------------------
(* auth.ts: password hasher (bcryptjs)                                     *)

BcryptCost     == 10
BcryptKeyBytes == 72

\* bcrypt keys its cipher with the first 72 bytes of the NUL-terminated password
BcryptKey(p) == LET z == p \o <<"NUL">>
                IN  IF Len(z) <= BcryptKeyBytes THEN z ELSE SubSeq(z, 1, BcryptKeyBytes)

bcryptHash(p, salt, cost) == [salt |-> salt, cost |-> cost, digest |-> BcryptKey(p)]

\* bcrypt.genSalt: a salt no earlier call returned (n salts were drawn so far)
genSalt(n) == n + 1

\* a hasher that keeps the password as its digest
hashPasswordPlain(p, salt) == [salt |-> salt, cost |-> BcryptCost, digest |-> p]

\* bcrypt.hash(password, 10), the salt being the fresh one bcrypt generated
hashPassword(p, salt) == bcryptHash(p, salt, BcryptCost)

\* a comparison of the plain password with the stored digest
comparePasswordsPlain(p, h) == p = h.digest

\* bcrypt.compare(password, hash): re-hash under the stored salt and cost
comparePasswords(p, h) == bcryptHash(p, h.salt, h.cost) = h

----------------------------------------------------------------------------
(* auth.ts: session token (jose, HS256)                                    *)

TokenTTL == 24

Null  == [kind |-> "null"]
Raise == [kind |-> "raise"]

NoCookie == [kind |-> "none"]
Garbage  == [kind |-> "garbage"]

\* the MAC of a message under a secret: equal only for equal message and secret
HS256(msg, secret) == [msg |-> msg, secret |-> secret]

Jws(alg, payload, sig) == [kind |-> "jws", alg |-> alg, payload |-> payload, sig |-> sig]

\* a token whose expiry is its time of issue
createTokenNoLifetime(claims, now, k) ==
    LET payload == [id |-> claims.id, email |-> claims.email, name |-> claims.name,
                    iat |-> now, exp |-> now]
    IN  Jws("HS256", payload, HS256(payload, k))

\* new SignJWT(payload).setProtectedHeader({alg}).setIssuedAt().setExpirationTime('24h').sign(key)
createToken(claims, now, k) ==
    LET payload == [id |-> claims.id, email |-> claims.email, name |-> claims.name,
                    iat |-> now, exp |-> now + TokenTTL]
    IN  Jws("HS256", payload, HS256(payload, k))

\* jose's jwtVerify: the payload, or the error it throws
jwtVerify(token, k, now) ==
    IF token.kind # "jws" THEN [threw |-> TRUE, error |-> "JWSInvalid"]
    ELSE IF token.alg # "HS256" THEN [threw |-> TRUE, error |-> "JOSEAlgNotAllowed"]
    ELSE IF token.sig # HS256(token.payload, k)
         THEN [threw |-> TRUE, error |-> "JWSSignatureVerificationFailed"]
    ELSE IF token.payload.exp <= now THEN [threw |-> TRUE, error |-> "JWTExpired"]
    ELSE [threw |-> FALSE, payload |-> token.payload]

\* verifyToken without its try/catch: jwtVerify's exception propagates
verifyTokenNoCatch(token, k, now) ==
    LET r == jwtVerify(token, k, now)
    IN  IF r.threw THEN Raise ELSE r.payload

\* verifyToken decoding the payload without checking the signature
verifyTokenDecodeOnly(token, k, now) ==
    IF token.kind # "jws" \/ token.payload.exp <= now THEN Null ELSE token.payload

\* a verifier that rejects every token once its holder has logged out
verifyTokenRevoking(token, k, now) ==
    LET r == jwtVerify(token, k, now)
    IN  IF r.threw \/ \E c \in DOMAIN granted : granted[c].by = "logout" THEN Null ELSE r.payload

\* try { return (await jwtVerify(token, key)).payload } catch { return null }
verifyToken(token, k, now) ==
    LET r == jwtVerify(token, k, now)
    IN  IF r.threw THEN Null ELSE r.payload

\* cookies().get('auth-token'), then verifyToken; an exception propagates
getSession(cookie, k, now) ==
    IF cookie = NoCookie THEN Null ELSE verifyToken(cookie, k, now)

\* maxAge: 60 * 60 * 24, in seconds
CookieMaxAge == 60 * 60 * 24

\* a session cookie the browser drops after an hour
setSessionShort(token, e) ==
    [kind |-> "cookie", value |-> token, httpOnly |-> TRUE,
     secure |-> (e.NODE_ENV = "production"), sameSite |-> "lax", maxAge |-> 60 * 60]

\* a handler that issues the token and never hands it to the client
setSessionDrop(token, e) == NoCookie

\* cookieStore.set('auth-token', token, {httpOnly, secure, sameSite, maxAge})
setSession(token, e) ==
    [kind |-> "cookie", value |-> token, httpOnly |-> TRUE,
     secure |-> (e.NODE_ENV = "production"), sameSite |-> "lax", maxAge |-> CookieMaxAge]

\* a logout that leaves the cookie where it is
clearSessionKeep(cookie) == cookie

\* cookieStore.delete('auth-token')
clearSession(cookie) == NoCookie

\* the token a request sends from a cookie jar entry
CookieValue(j) == IF j = NoCookie THEN NoCookie ELSE j.value

----------------------------------------------------------------------------
(* db.ts: the users table                                                  *)

EmailTaken(rows, email) == \E i \in 1..Len(rows) : rows[i].email = email

\* an insert into a table without the UNIQUE(email) constraint
createUserNoUnique(rows, seq, email, password, name, now) ==
    [threw |-> FALSE,
     row |-> [id |-> seq + 1, email |-> email, password |-> password,
              name |-> name, createdAt |-> now]]

\* INSERT ... RETURNING under the UNIQUE(email) constraint
createUser(rows, seq, email, password, name, now) ==
    IF EmailTaken(rows, email)
    THEN [threw |-> TRUE, error |-> "SQLITE_CONSTRAINT_UNIQUE"]
    ELSE [threw |-> FALSE,
          row |-> [id |-> seq + 1, email |-> email, password |-> password,
                   name |-> name, createdAt |-> now]]

\* SELECT ... WHERE email = ? LIMIT 1; result[0] || null
getUserByEmail(rows, email) ==
    IF EmailTaken(rows, email)
    THEN rows[CHOOSE i \in 1..Len(rows) : rows[i].email = email /\
                 \A j \in 1..Len(rows) : rows[j].email = email => i <= j]
    ELSE Null

\* typeof id === 'string' ? parseInt(id) : id;  SELECT ... WHERE id = ? LIMIT 1
getUserById(rows, id) ==
    LET numericId == ParseInt(id)
    IN  IF numericId # NaN /\ \E i \in 1..Len(rows) : rows[i].id = numericId
        THEN rows[CHOOSE i \in 1..Len(rows) : rows[i].id = numericId]
        ELSE Null

\* a response body that carries the stored row's password column along
PublicUserWithHash(u) ==
    [id |-> NumToString(u.id), email |-> u.email, name |-> u.name, password |-> u.password]

\* the user object the handlers put in a response body
PublicUser(u) == [id |-> NumToString(u.id), email |-> u.email, name |-> u.name]

----------------------------------------------------------------------------
(* middleware.ts: the access gate                                          *)

PDashboard  == <<"/", "d", "a", "s", "h", "b", "o", "a", "r", "d">>
PDashSub    == PDashboard \o <<"/", "x">>
PDashboardX == PDashboard \o <<"x">>
PSignIn     == <<"/", "s", "i", "g", "n", "-", "i", "n">>
PSignUp     == <<"/", "s", "i", "g", "n", "-", "u", "p">>
PSignInSub  == PSignIn \o <<"/", "x">>
PRoot       == <<"/">>

Paths == {PDashboard, PDashSub, PDashboardX, PSignIn, PSignUp, PSignInSub, PRoot}

DecNext        == [kind |-> "next"]
DecRedirect(p) == [kind |-> "redirect", to |-> p]
DecError       == [kind |-> "error"]

\* config.matcher: ['/dashboard/:path*', '/sign-in', '/sign-up']
matcher(path) ==
    \/ path = PDashboard
    \/ StartsWith(path, PDashboard \o <<"/">>)
    \/ path = PSignIn
    \/ path = PSignUp

\* a middleware that looks only at whether a cookie is there
middlewarePresenceOnly(path, token, k, now) ==
    IF StartsWith(path, PDashboard) /\ token = NoCookie THEN DecRedirect(PSignIn)
    ELSE IF (path = PSignIn \/ path = PSignUp) /\ token # NoCookie THEN DecRedirect(PDashboard)
    ELSE DecNext

\* a middleware protecting /dashboard itself but no path below it
middlewareExactPath(path, token, k, now) ==
    LET payload == IF token = NoCookie THEN Null ELSE verifyToken(token, k, now)
    IN  IF path = PDashboard /\ payload = Null THEN DecRedirect(PSignIn)
        ELSE IF (path = PSignIn \/ path = PSignUp) /\ payload # Null THEN DecRedirect(PDashboard)
        ELSE DecNext

middleware(path, token, k, now) ==
    LET payload == IF token = NoCookie THEN Null ELSE verifyToken(token, k, now)
        \* if (pathname.startsWith('/dashboard')) { ... }
        protected ==
            IF StartsWith(path, PDashboard)
            THEN IF token = NoCookie THEN DecRedirect(PSignIn)
                 ELSE IF payload = Raise THEN DecError
                 ELSE IF payload = Null THEN DecRedirect(PSignIn)
                 ELSE Null
            ELSE Null
        \* if (pathname === '/sign-in' || pathname === '/sign-up') { ... }
        authPage ==
            IF path = PSignIn \/ path = PSignUp
            THEN IF token # NoCookie
                 THEN IF payload = Raise THEN DecError
                      ELSE IF payload # Null THEN DecRedirect(PDashboard)
                      ELSE Null
                 ELSE Null
            ELSE Null
    IN  IF protected # Null THEN protected
        ELSE IF authPage # Null THEN authPage
        ELSE DecNext

\* what the framework does with a request: the middleware runs on matched paths only
Gate(path, token, k, now) ==
    IF matcher(path) THEN middleware(path, token, k, now) ELSE DecNext

----------------------------------------------------------------------------
(* Requests                                                                *)

SignUpBodies ==
    { [email |-> EmailA,   password |-> PwGood,  name |-> NameAB],
      [email |-> EmailB,   password |-> PwLongX, name |-> NameAB],
      [email |-> EmailBad, password |-> PwGood,  name |-> NameAB],
      [email |-> EmailA,   password |-> PwWeak,  name |-> NameAB],
      [email |-> EmailA,   password |-> PwGood,  name |-> NameBad] }

SignInBodies ==
    { [email |-> EmailA,   password |-> PwGood],
      [email |-> EmailA,   password |-> PwWeak],
      [email |-> EmailA,   password |-> PwEmpty],
      [email |-> EmailB,   password |-> PwLongX],
      [email |-> EmailB,   password |-> PwLongY] }

CraftedClaims == [id |-> <<"1">>, email |-> EmailA, name |-> NameAB]
CraftedExp    == 1000

CraftedPayload(id) == [id |-> id, email |-> CraftedClaims.email, name |-> CraftedClaims.name,
                       iat |-> 0, exp |-> CraftedExp]

\* tokens a client can put together without the server: junk, tokens signed
\* under a secret of its choosing, an unsigned token, and a signed token whose
\* payload was altered afterwards
SignedWith(secret) == Jws("HS256", CraftedPayload(<<"1">>), HS256(CraftedPayload(<<"1">>), secret))
Unsigned           == Jws("none", CraftedPayload(<<"1">>), Null)
Tampered(k)        == Jws("HS256", CraftedPayload(<<"2">>), HS256(CraftedPayload(<<"1">>), k))

Crafted(k) == {Garbage, Unsigned, Tampered(k)} \cup {SignedWith(s) : s \in Secrets}

NoRequest == [op |-> "none"]
NoGrant   == [by |-> "none"]

----------------------------------------------------------------------------
(* State machine                                                           *)

Init ==
    /\ env \in Envs
    /\ clock = 0
    /\ users = <<>>
    /\ idSeq = 0
    /\ salts = 0
    /\ jar = [c \in Clients |-> NoCookie]
    /\ granted = [c \in Clients |-> NoGrant]
    /\ pending = [c \in Clients |-> Null]
    /\ last = NoRequest
    /\ registered = {}

Tick(d) ==
    /\ clock + d <= MaxClock
    /\ clock' = clock + d
    /\ UNCHANGED <<env, users, idSeq, salts, jar, granted, pending, last, registered>>

\* sign-up/route.ts POST, up to and including the existence check
SignUpBegin(c, body) ==
    /\ pending[c] = Null
    /\ IF ~signUpSchema(body)
       THEN /\ last' = [client |-> c, op |-> "sign-up", req |-> body, status |-> 400,
                        error |-> "Invalid input", calls |-> <<>>]
            /\ UNCHANGED pending
       ELSE IF getUserByEmail(users, body.email) # Null
       THEN /\ last' = [client |-> c, op |-> "sign-up", req |-> body, status |-> 409,
                        error |-> "User already exists", calls |-> <<"getUserByEmail">>]
            /\ UNCHANGED pending
       ELSE /\ pending' = [pending EXCEPT ![c] = body]
            /\ UNCHANGED last
    /\ UNCHANGED <<env, clock, users, idSeq, salts, jar, granted, registered>>

\* sign-up/route.ts POST, from hashPassword to the response
SignUpFinish(c) ==
    /\ pending[c] # Null
    /\ Len(users) < MaxUsers
    /\ salts' = salts + 1
    /\   LET body   == pending[c]
             hashed == hashPassword(body.password, genSalt(salts))
             ins    == createUser(users, idSeq, body.email, hashed, body.name, clock)
         IN  IF ins.threw
             THEN \* catch { return 500 }
                  /\ last' = [client |-> c, op |-> "sign-up", req |-> body, status |-> 500,
                              error |-> "Internal server error",
                              calls |-> <<"getUserByEmail", "hashPassword", "createUser">>]
                  /\ idSeq' = IF isProduction(env) THEN idSeq + 1 ELSE idSeq
                  /\ UNCHANGED <<users, jar, granted, registered>>
             ELSE LET user  == ins.row
                      token == createToken(PublicUser(user), clock, key(env))
                  IN  /\ users' = Append(users, user)
                      /\ idSeq' = user.id
                      /\ jar' = [jar EXCEPT ![c] = setSession(token, env)]
                      /\ granted' = [granted EXCEPT ![c] =
                                       [by |-> "sign-up", token |-> token, user |-> PublicUser(user)]]
                      /\ last' = [client |-> c, op |-> "sign-up", req |-> body, status |-> 201,
                                  user |-> PublicUser(user),
                                  calls |-> <<"getUserByEmail", "hashPassword", "createUser">>]
                      /\ registered' = registered \cup {<<body.email, body.password>>}
    /\ pending' = [pending EXCEPT ![c] = Null]
    /\ UNCHANGED <<env, clock>>

\* client c holds a cookie that verifies now, for a user other than u
HoldsSessionOfOther(c, u) ==
    LET s == getSession(CookieValue(jar[c]), key(env), clock)
    IN  s # Null /\ s.id # PublicUser(u).id

\* a sign-in that leaves a cookie the client already has in place
SignInKeepSession(c, body) ==
    /\ LET user == getUserByEmail(users, body.email)
           ok   == signInSchema(body) /\ user # Null /\ comparePasswords(body.password, user.password)
           token == createToken(PublicUser(user), clock, key(env))
       IN  /\ ok
           /\ jar' = [jar EXCEPT ![c] = IF @ = NoCookie THEN setSession(token, env) ELSE @]
           /\ granted' = [granted EXCEPT ![c] =
                            [by |-> "sign-in", token |-> token, user |-> PublicUser(user)]]
           /\ last' = [client |-> c, op |-> "sign-in", req |-> body,
                       known |-> <<body.email, body.password>> \in registered, status |-> 200,
                       user |-> PublicUser(user), account |-> TRUE,
                       calls |-> <<"getUserByEmail", "comparePasswords">>,
                       switched |-> HoldsSessionOfOther(c, user)]
    /\ UNCHANGED <<env, clock, users, idSeq, salts, pending, registered>>

\* sign-in route POST
SignIn(c, body) ==
    /\ LET user  == getUserByEmail(users, body.email)
           known == <<body.email, body.password>> \in registered
       IN  IF ~signInSchema(body)
           THEN /\ last' = [client |-> c, op |-> "sign-in", req |-> body, known |-> known, status |-> 400,
                            error |-> "Invalid input", account |-> user # Null, calls |-> <<>>]
                /\ UNCHANGED <<jar, granted>>
           ELSE IF user = Null
           THEN /\ last' = [client |-> c, op |-> "sign-in", req |-> body, known |-> known, status |-> 401,
                            error |-> "No account found with this email address",
                            errorType |-> "email_not_found",
                            account |-> user # Null, calls |-> <<"getUserByEmail">>]
                /\ UNCHANGED <<jar, granted>>
           ELSE IF ~comparePasswords(body.password, user.password)
           THEN /\ last' = [client |-> c, op |-> "sign-in", req |-> body, known |-> known, status |-> 401,
                            error |-> "Incorrect password", errorType |-> "invalid_password",
                            account |-> user # Null,
                            calls |-> <<"getUserByEmail", "comparePasswords">>]
                /\ UNCHANGED <<jar, granted>>
           ELSE LET token == createToken(PublicUser(user), clock, key(env))
                IN  /\ jar' = [jar EXCEPT ![c] = setSession(token, env)]
                    /\ granted' = [granted EXCEPT ![c] =
                                     [by |-> "sign-in", token |-> token, user |-> PublicUser(user)]]
                    /\ last' = [client |-> c, op |-> "sign-in", req |-> body, known |-> known, status |-> 200,
                                user |-> PublicUser(user), account |-> user # Null,
                                calls |-> <<"getUserByEmail", "comparePasswords">>,
                                switched |-> HoldsSessionOfOther(c, user)]
    /\ UNCHANGED <<env, clock, users, idSeq, salts, pending, registered>>

\* a logout that also deletes the account of the session it ends
LogoutPurge(c) ==
    /\ jar' = [jar EXCEPT ![c] = clearSession(@)]
    /\ granted' = [granted EXCEPT ![c] = [by |-> "logout"]]
    /\ last' = [client |-> c, op |-> "logout", again |-> granted[c].by = "logout",
                authed |-> getSession(CookieValue(jar[c]), key(env), clock) # Null,
                held |-> CookieValue(jar[c]),
                status |-> 200, message |-> "Logged out successfully"]
    /\ users' = IF granted[c].by \in {"sign-up", "sign-in"}
                THEN SelectSeq(users, LAMBDA u : PublicUser(u) # granted[c].user)
                ELSE users
    /\ UNCHANGED <<env, clock, idSeq, salts, pending, registered>>

\* a logout that wants a valid session first, as the API notes describe it
LogoutAuthRequired(c) ==
    /\ IF getSession(CookieValue(jar[c]), key(env), clock) = Null
       THEN /\ last' = [client |-> c, op |-> "logout", again |-> granted[c].by = "logout",
                authed |-> getSession(CookieValue(jar[c]), key(env), clock) # Null,
                held |-> CookieValue(jar[c]),
                        status |-> 401, message |-> "Unauthorized"]
            /\ UNCHANGED <<jar, granted>>
       ELSE /\ jar' = [jar EXCEPT ![c] = clearSession(@)]
            /\ granted' = [granted EXCEPT ![c] = [by |-> "logout"]]
            /\ last' = [client |-> c, op |-> "logout", again |-> granted[c].by = "logout",
                authed |-> getSession(CookieValue(jar[c]), key(env), clock) # Null,
                held |-> CookieValue(jar[c]),
                        status |-> 200, message |-> "Logged out successfully"]
    /\ UNCHANGED <<env, clock, users, idSeq, salts, pending, registered>>

\* logout route POST; again: the client's previous session event was a logout,
\* authed: the request carried a cookie that verifies, held: that cookie
Logout(c) ==
    /\ jar' = [jar EXCEPT ![c] = clearSession(@)]
    /\ granted' = [granted EXCEPT ![c] = [by |-> "logout"]]
    /\ last' = [client |-> c, op |-> "logout", again |-> granted[c].by = "logout",
                authed |-> getSession(CookieValue(jar[c]), key(env), clock) # Null,
                held |-> CookieValue(jar[c]),
                status |-> 200, message |-> "Logged out successfully"]
    /\ UNCHANGED <<env, clock, users, idSeq, salts, pending, registered>>

\* the cookie a request carries: the jar's, a copy of the one the client held
\* when it logged out last, or one the client made up
Presented(c, via) ==
    IF via = "jar" THEN {CookieValue(jar[c])}
    ELSE IF via = "copy"
         THEN IF last.op = "logout" /\ last.client = c THEN {last.held} ELSE {}
    ELSE Crafted(key(env))

\* a current-session query that tells the caller why its token failed
GETWithDetail(token, rows, k, now) ==
    LET session == getSession(token, k, now)
        user    == IF session \in {Null, Raise} THEN Null ELSE getUserById(rows, session.id)
    IN  IF session = Raise THEN [status |-> 500, error |-> "uncaught exception"]
        ELSE IF session = Null /\ token # NoCookie
             THEN [status |-> 401, error |-> jwtVerify(token, k, now).error]
        ELSE IF session = Null THEN [status |-> 401, error |-> "Unauthorized"]
        ELSE IF user = Null THEN [status |-> 404, error |-> "User not found"]
        ELSE [status |-> 200, user |-> PublicUser(user)]

\* me/route.ts GET: the response for the cookie a request carries
GET(token, rows, k, now) ==
    LET session == getSession(token, k, now)
        user    == IF session \in {Null, Raise} THEN Null ELSE getUserById(rows, session.id)
    IN  IF session = Raise THEN [status |-> 500, error |-> "uncaught exception"]
        ELSE IF session = Null THEN [status |-> 401, error |-> "Unauthorized"]
        ELSE IF user = Null THEN [status |-> 404, error |-> "User not found"]
        ELSE [status |-> 200, user |-> PublicUser(user)]

\* a current-session query; grant is what last changed the client's session
Me(c, via, token) ==
    /\ token \in Presented(c, via)
    /\ last' = [client |-> c, op |-> "me", via |-> via, token |-> token, at |-> clock,
                grant |-> granted[c],
                session |-> getSession(token, key(env), clock),
                resp |-> GET(token, users, key(env), clock)]
    /\ UNCHANGED <<env, clock, users, idSeq, salts, jar, granted, pending, registered>>

\* a page request passing the middleware
Visit(c, via, token, path) ==
    /\ token \in Presented(c, via)
    /\ last' = [client |-> c, op |-> "gate", via |-> via, token |-> token, at |-> clock,
                grant |-> granted[c], path |-> path,
                session |-> getSession(token, key(env), clock),
                decision |-> Gate(path, token, key(env), clock)]
    /\ UNCHANGED <<env, clock, users, idSeq, salts, jar, granted, pending, registered>>

Vias == {"jar", "crafted"}

\* the route handlers, each request carrying the cookie its client holds
Next ==
    \/ Tick(TokenTTL)
    \/ \E c \in Clients, body \in SignUpBodies : SignUpBegin(c, body)
    \/ \E c \in Clients : SignUpFinish(c)
    \/ \E c \in Clients, body \in SignInBodies : SignIn(c, body)
    \/ \E c \in Clients : Logout(c)
    \/ \E c \in Clients : Me(c, "jar", CookieValue(jar[c]))

Spec == Init /\ [][Next]_vars

\* one registering client, and requests carrying any cookie: the client's own
\* or a made-up one
GateBody == [email |-> EmailA, password |-> PwGood, name |-> NameAB]

NextGate ==
    \/ Tick(GateStep)
    \/ SignUpBegin("c1", GateBody)
    \/ SignUpFinish("c1")
    \/ SignIn("c1", [email |-> GateBody.email, password |-> GateBody.password])
    \/ Logout("c1")
    \/ \E via \in Vias, token \in {CookieValue(jar["c1"])} \cup Crafted(key(env)) :
         Me("c1", via, token)
    \/ \E via \in Vias, token \in {CookieValue(jar["c1"])} \cup Crafted(key(env)), path \in Paths :
         Visit("c1", via, token, path)
    \/ \E token \in Presented("c1", "copy") : Me("c1", "copy", token)
    \/ \E token \in Presented("c1", "copy"), path \in Paths : Visit("c1", "copy", token, path)

SpecGate == Init /\ [][NextGate]_vars

\* ---- requests during which a dependency is failing --------------------------
\* the layer whose calls throw while the request runs: the database driver
\* (db.ts), bcrypt (auth.ts 9-15) or next/headers cookies() (auth.ts 34-56)
Faults == {"store", "hasher", "cookies"}

InternalError == [status |-> 500, error |-> "Internal server error"]

\* try { ... } catch (error) { return 500 'Internal server error' }
catch(outcome) == IF outcome = Raise THEN InternalError ELSE outcome

\* sign-up/route.ts POST with a failing layer; the insert precedes setSession
SignUpFault(c, body, fault) ==
    /\ signUpSchema(body)
    /\ fault \in Faults
    /\ Len(users) < MaxUsers
    /\ LET existing == IF fault = "store" THEN Raise ELSE getUserByEmail(users, body.email)
           hashed   == IF fault = "hasher" THEN Raise
                       ELSE hashPassword(body.password, genSalt(salts))
           inserted == fault = "cookies"
           row      == createUser(users, idSeq, body.email, hashed, body.name, clock).row
       IN  /\ existing \in {Null, Raise}
           /\ last' = [client |-> c, op |-> "sign-up", req |-> body, fault |-> fault,
                       resp |-> catch(Raise)]
           /\ users' = IF inserted THEN Append(users, row) ELSE users
           /\ idSeq' = IF inserted THEN row.id ELSE idSeq
           /\ salts' = IF inserted THEN salts + 1 ELSE salts
           /\ registered' = IF inserted THEN registered \cup {<<body.email, body.password>>}
                            ELSE registered
    /\ UNCHANGED <<env, clock, jar, granted, pending>>

\* sign-in route POST with a failing layer
SignInFault(c, body, fault) ==
    /\ signInSchema(body)
    /\ fault \in Faults
    /\ LET user == getUserByEmail(users, body.email)
       IN  /\ fault = "hasher" => user # Null
           /\ fault = "cookies" => (user # Null /\ comparePasswords(body.password, user.password))
    /\ last' = [client |-> c, op |-> "sign-in", req |-> body, fault |-> fault,
                resp |-> catch(Raise)]
    /\ UNCHANGED <<env, clock, users, idSeq, salts, jar, granted, pending, registered>>

\* logout route POST while cookies() or cookieStore.delete throws: the handler
\* has no try/catch, the exception leaves it
LogoutFault(c) ==
    /\ last' = [client |-> c, op |-> "logout", fault |-> "cookies", resp |-> Raise]
    /\ UNCHANGED <<env, clock, users, idSeq, salts, jar, granted, pending, registered>>

\* me/route.ts GET while cookies() throws in getSession, or getUserById throws
\* for a verified session: the handler has no try/catch either
MeFault(c, fault) ==
    /\ fault \in {"cookies", "store"}
    /\ fault = "store" => getSession(CookieValue(jar[c]), key(env), clock) # Null
    /\ last' = [client |-> c, op |-> "me", fault |-> fault, resp |-> Raise]
    /\ UNCHANGED <<env, clock, users, idSeq, salts, jar, granted, pending, registered>>

NextFault ==
    \/ SignUpBegin("c1", GateBody)
    \/ SignUpFinish("c1")
    \/ \E body \in SignInBodies : SignIn("c1", body)
    \/ Logout("c1")
    \/ Me("c1", "jar", CookieValue(jar["c1"]))
    \/ \E body \in SignUpBodies, fault \in Faults : SignUpFault("c1", body, fault)
    \/ \E body \in SignInBodies, fault \in Faults : SignInFault("c1", body, fault)
    \/ LogoutFault("c1")
    \/ \E fault \in Faults : MeFault("c1", fault)

SpecFault == Init /\ [][NextFault]_vars

\* ---- a browser following redirects ------------------------------------------
\* the cookie the browser of the last page request sends with its next one
NavToken(c) == IF last.via = "jar" THEN CookieValue(jar[c]) ELSE last.token

\* the browser follows NextResponse.redirect to its target, through the
\* middleware again
Follow(c) ==
    /\ last.op = "gate" /\ last.client = c
    /\ last.decision.kind = "redirect"
    /\ Visit(c, last.via, NavToken(c), last.decision.to)

\* DashboardPage.checkAuth, run once /dashboard is served: fetch /api/auth/me,
\* and router.push('/sign-in') unless the response is ok
CheckAuth(c) ==
    /\ last.op = "gate" /\ last.client = c
    /\ last.path = PDashboard /\ last.decision = DecNext
    /\ LET token    == NavToken(c)
           response == GET(token, users, key(env), clock)
       IN  IF response.status = 200
           THEN /\ last' = [client |-> c, op |-> "me", via |-> last.via, token |-> token,
                            at |-> clock, grant |-> granted[c], page |-> PDashboard,
                            session |-> getSession(token, key(env), clock),
                            resp |-> response]
                /\ UNCHANGED <<env, clock, users, idSeq, salts, jar, granted, pending,
                               registered>>
           ELSE Visit(c, last.via, token, PSignIn)

\* the browser has a redirect to follow, or /dashboard was served and its
\* checkAuth has yet to run
NavPending ==
    /\ last.op = "gate"
    /\ \/ last.decision.kind = "redirect"
       \/ last.decision = DecNext /\ last.path = PDashboard

\* a step the browser takes by itself
Navigate == Follow("c1") \/ CheckAuth("c1")

NextNav ==
    \/ Tick(GateStep)
    \/ SignUpBegin("c1", GateBody)
    \/ SignUpFinish("c1")
    \/ Logout("c1")
    \/ \E via \in Vias, token \in {CookieValue(jar["c1"])} \cup Crafted(key(env)), path \in Paths :
         \* the user opens a page once the browser has come to rest
         ~NavPending /\ Visit("c1", via, token, path)
    \/ Follow("c1")
    \/ CheckAuth("c1")

\* the browser does take its next step
SpecNav == Init /\ [][NextNav]_vars /\ WF_vars(Navigate)

----------------------------------------------------------------------------
(* Vocabulary of the properties                                            *)

ClaimsOf(p) == [id |-> p.id, email |-> p.email, name |-> p.name]

Malformed(t)    == t.kind # "jws" \/ t.alg # "HS256"
BadSignature(t) == t.kind = "jws" /\ t.sig # HS256(t.payload, key(env))
Expired(t, now) == t.kind = "jws" /\ t.payload.exp <= now

\* a cookie that is there but does not verify at time now
Invalid(t, now) == t # NoCookie /\ (Malformed(t) \/ BadSignature(t) \/ Expired(t, now))

UnderDashboard(path) == path = PDashboard \/ StartsWith(path, PDashboard \o <<"/">>)

IsQuery == last.op \in {"me", "gate"}

\* the cookie of the last query is the one its client was granted
OwnCookie == IsQuery /\ last.via = "jar" /\ last.grant.by \in {"sign-up", "sign-in"}
             /\ last.grant.token = last.token

NoDuplicateEmails == \A i, j \in 1..Len(users) : users[i].email = users[j].email => i = j

----------------------------------------------------------------------------
(* Properties                                                              *)

\* C1: a query whose cookie is malformed, badly signed or expired gets null from
\* verifyToken, never an exception, and the unauthenticated outcome: 401 from
\* the current-session query, the redirect to /sign-in on a path under
\* /dashboard, and no redirect to /dashboard anywhere.
C1_FailClosed ==
    (IsQuery /\ Invalid(last.token, last.at)) =>
        /\ last.session = Null
        /\ last.op = "me" => last.resp.status = 401
        /\ last.op = "gate" =>
             last.decision = IF UnderDashboard(last.path) THEN DecRedirect(PSignIn) ELSE DecNext

C1_Witness ==
    /\ last.op = "me" /\ last.via = "jar"
    /\ Expired(last.token, last.at) /\ ~BadSignature(last.token)
    /\ last.session = Null /\ last.resp.status = 401

\* C2: the decision of the access gate is the one the table gives for the path
\* and for whether the cookie verifies, for every path and every cookie.
C2_Table(path, valid) ==
    IF UnderDashboard(path) THEN (IF valid THEN DecNext ELSE DecRedirect(PSignIn))
    ELSE IF path \in {PSignIn, PSignUp} THEN (IF valid THEN DecRedirect(PDashboard) ELSE DecNext)
    ELSE DecNext

C2_DecisionTable ==
    last.op = "gate" =>
        last.decision = C2_Table(last.path, last.token # NoCookie /\ ~Invalid(last.token, last.at))

C2_Witness ==
    /\ last.op = "gate" /\ last.via = "jar" /\ last.path = PDashSub
    /\ last.token # NoCookie /\ ~Invalid(last.token, last.at)
    /\ last.decision = DecNext

\* C3: a sign-in answers 200 only for the password its account was registered
\* with, and a sign-in with that password is never answered "Incorrect password".
C3_OnlyRegisteredPassword ==
    last.op = "sign-in" =>
        /\ last.status = 200 => last.known
        /\ (last.known /\ signInSchema(last.req)) => last.status = 200

\* C4: of the sign-ups of one email with valid input, the one that inserts the
\* record is answered 201 and every other one 409.
C4_OneSuccessOneConflict ==
    (last.op = "sign-up" /\ signUpSchema(last.req)) =>
        \/ last.status = 201 /\ EmailTaken(users, last.req.email)
        \/ last.status = 409 /\ EmailTaken(users, last.req.email)

\* C5: the users table never holds two records with the same email.
C5_OneUserPerEmail == NoDuplicateEmails

C5_Witness ==
    /\ last.op = "sign-up" /\ last.status = 500
    /\ Cardinality({i \in 1..Len(users) : users[i].email = last.req.email}) = 1

\* C6: a query carrying the token its client was issued gets the claims the
\* token was issued for at every time before issue + 24h, and null from then on.
C6_AcceptedUntilExpiry ==
    OwnCookie =>
        IF last.at < last.token.payload.iat + TokenTTL
        THEN last.session # Null /\ last.session # Raise
             /\ ClaimsOf(last.session) = last.grant.user
        ELSE last.session = Null

C6_Witness ==
    /\ OwnCookie
    /\ last.at > last.token.payload.iat
    /\ last.session # Null /\ ClaimsOf(last.session) = last.grant.user

\* C7: a token signed under a secret other than the server's key is rejected by
\* verifyToken whatever it claims and whenever it expires.
C7_OtherSecretRejected ==
    (IsQuery /\ last.token.kind = "jws" /\ last.token.alg = "HS256"
             /\ last.token.sig.secret # key(env)) => last.session = Null

C7_Witness ==
    /\ last.op = "me"
    /\ last.token = SignedWith("other-secret")
    /\ ~Expired(last.token, last.at)
    /\ last.session = Null

\* C8: a sign-up with valid input is refused only when its email is in the
\* store, a successful one leaves its record there, and a sign-in with the
\* email and password of an earlier successful sign-up is answered 200.
C8_RegisterThenLogin ==
    /\ (last.op = "sign-up" /\ signUpSchema(last.req)) =>
          /\ EmailTaken(users, last.req.email) \/ last.status = 201
          /\ last.status = 201 => PublicUser(getUserByEmail(users, last.req.email)) = last.user
    /\ (last.op = "sign-in" /\ last.known) => last.status = 200

C8_Witness ==
    /\ last.op = "sign-in" /\ last.known /\ last.status = 200
    /\ last.client = "c2" /\ granted["c1"].by = "sign-up"
    /\ granted["c1"].user = last.user

\* C9 as stated: the current-session query carrying the cookie of a sign-in
\* returns the fields the sign-in returned, and the one after a logout 401.
C9_Original ==
    last.op = "me" =>
        /\ (OwnCookie /\ last.grant.by = "sign-in") =>
              last.resp = [status |-> 200, user |-> last.grant.user]
        /\ (last.via = "jar" /\ last.grant.by = "logout") => last.resp.status = 401

\* C9: the current-session query carrying the cookie of a sign-in, made before
\* the token expires, returns the fields the sign-in returned, and the one
\* after a logout 401.
C9_SessionLifecycle ==
    last.op = "me" =>
        /\ (OwnCookie /\ last.grant.by = "sign-in"
               /\ last.at < last.token.payload.iat + TokenTTL) =>
              last.resp = [status |-> 200, user |-> last.grant.user]
        /\ (last.via = "jar" /\ last.grant.by = "logout") => last.resp.status = 401

C9_Witness ==
    /\ last.op = "me" /\ OwnCookie /\ last.grant.by = "sign-in"
    /\ last.resp = [status |-> 200, user |-> last.grant.user]

\* C10: a query whose cookie does not verify gets what the same query without
\* a cookie gets: the same gate decision for its path, the same response from
\* the current-session query.
C10_InvalidAsAbsent ==
    (IsQuery /\ Invalid(last.token, last.at)) =>
        /\ last.op = "gate" => last.decision = Gate(last.path, NoCookie, key(env), last.at)
        /\ last.op = "me" => last.resp = GET(NoCookie, users, key(env), last.at)

C10_Witness ==
    /\ last.op = "gate" /\ last.path = PDashboard
    /\ last.token = Garbage
    /\ last.decision = DecRedirect(PSignIn)

\* tokens that fail verification at time now, one of each kind: junk, unsigned,
\* tampered, signed under another secret, and one issued a lifetime ago
FailingTokens(now) ==
    {t \in Crafted(key(env)) \cup {createToken(CraftedClaims, now - TokenTTL, key(env))} :
        Invalid(t, now)}

\* C11: a query whose token fails verification gets the outcome every other
\* failing token gets at that time, be it expired, forged or malformed: the
\* same gate decision for its path, the same 401 "Unauthorized" body.
C11_NoFailureDetail ==
    (IsQuery /\ Invalid(last.token, last.at)) =>
        \A t \in FailingTokens(last.at) :
            /\ last.op = "gate" => last.decision = Gate(last.path, t, key(env), last.at)
            /\ last.op = "me" => /\ last.resp = GET(t, users, key(env), last.at)
                                 /\ last.resp = [status |-> 401, error |-> "Unauthorized"]

C11_Witness ==
    /\ last.op = "me" /\ last.token = Tampered(key(env))
    /\ last.resp.status = 401
    /\ Cardinality(FailingTokens(last.at)) >= 4

\* the user object of the last response, when it has one
ResponseUser ==
    IF last.op \in {"sign-up", "sign-in"} /\ "user" \in DOMAIN last THEN last.user
    ELSE IF last.op = "me" /\ last.resp.status = 200 THEN last.resp.user
    ELSE Null

FailsValidation(op, b) ==
    IF op = "sign-up"
    THEN ~emailSchema(b.email) \/ ~passwordSchema(b.password) \/ ~nameSchema(b.name)
    ELSE ~emailSchema(b.email) \/ Len(b.password) < 1

\* the error response of a request, without the model's bookkeeping
ErrorShape(r) ==
    IF "errorType" \in DOMAIN r
    THEN [status |-> r.status, error |-> r.error, errorType |-> r.errorType]
    ELSE [status |-> r.status, error |-> r.error]

ShapeMalformed == [status |-> 400, error |-> "Invalid input"]
ShapeUnknownEmail ==
    [status |-> 401, error |-> "No account found with this email address",
     errorType |-> "email_not_found"]
ShapeWrongPassword ==
    [status |-> 401, error |-> "Incorrect password", errorType |-> "invalid_password"]

\* C13: a failed sign-in answers by its kind of failure: malformed input,
\* unknown email and wrong password for a known email each get their own error
\* response, and the three responses differ pairwise.
C13_DistinctFailures ==
    /\ ShapeMalformed # ShapeUnknownEmail
    /\ ShapeMalformed # ShapeWrongPassword
    /\ ShapeUnknownEmail # ShapeWrongPassword
    /\ (last.op = "sign-in" /\ last.status # 200) =>
          ErrorShape(last) =
             IF FailsValidation("sign-in", last.req) THEN ShapeMalformed
             ELSE IF ~last.account THEN ShapeUnknownEmail
             ELSE ShapeWrongPassword

\* a wrong password for a registered email, well-formed
C13_Witness ==
    /\ last.op = "sign-in" /\ last.status = 401
    /\ last.account /\ ~FailsValidation("sign-in", last.req)
    /\ ErrorShape(last) = ShapeWrongPassword

\* C14: a sign-up or sign-in whose body fails schema validation is answered
\* 400 before the handler has made any store lookup, store insert, hash or
\* password comparison.
C14_ValidationFirst ==
    (last.op \in {"sign-up", "sign-in"} /\ FailsValidation(last.op, last.req)) =>
        /\ last.status = 400
        /\ last.error = "Invalid input"
        /\ last.calls = <<>>

\* a sign-up with a malformed email is refused while a user is stored
C14_Witness ==
    /\ last.op = "sign-up" /\ last.req.email = EmailBad
    /\ last.status = 400 /\ last.calls = <<>>
    /\ Len(users) >= 1

\* C15: whichever layer fails during a request (store, hasher or cookies), the
\* handler answers 500 "Internal server error"; no exception leaves a handler.
C15_FaultsCaught ==
    "fault" \in DOMAIN last => last.resp = InternalError

C17_AppendOnly ==
    [][ \/ users' = users
        \/ /\ Len(users') = Len(users) + 1
           /\ SubSeq(users', 1, Len(users)) = users
           /\ last'.op = "sign-up" /\ last'.status = 201
           /\ last'.user = PublicUser(users'[Len(users')]) ]_vars

\* a sign-in succeeds, later than the registration, and the row is as created
C17_Witness ==
    /\ last.op = "sign-in" /\ last.status = 200
    /\ Len(users) = 1 /\ users[1].createdAt < clock
    /\ PublicUser(users[1]) = last.user

\* C18: every session cookie holds a token that expires 24 hours after its
\* issue, and is set httpOnly, sameSite lax, secure exactly in production, with
\* a max age (in seconds) equal to the token's lifetime (in hours): 24 hours.
C18_LifetimesAgree ==
    \A c \in Clients :
        jar[c] # NoCookie =>
            LET p == jar[c].value.payload
            IN  /\ p.exp = p.iat + 24
                /\ jar[c].maxAge = (p.exp - p.iat) * 60 * 60
                /\ jar[c].httpOnly
                /\ jar[c].sameSite = "lax"
                /\ jar[c].secure <=> (env.NODE_ENV = "production")

\* two clients hold cookies issued a day apart, outside production
C18_Witness ==
    /\ env.NODE_ENV # "production"
    /\ jar["c1"] # NoCookie /\ jar["c2"] # NoCookie
    /\ ~jar["c1"].secure
    /\ jar["c1"].value.payload.iat # jar["c2"].value.payload.iat

\* C19: the password column of every stored user is the bcrypt hash (cost 10,
\* under the row's own salt) of the password its sign-up submitted, and its
\* digest is not that password.
C19_NeverPlaintext ==
    \A i \in 1..Len(users) :
        \E r \in registered :
            /\ r[1] = users[i].email
            /\ users[i].password.digest # r[2]
            /\ users[i].password = bcryptHash(r[2], users[i].password.salt, BcryptCost)

\* two users are stored, their hashes under different salts
C19_Witness ==
    /\ Len(users) >= 2
    /\ users[1].password.salt # users[2].password.salt
    /\ <<users[2].email, PwLongX>> \in registered

\* C20: once sign-up has answered 201 the client's cookie holds a token that
\* verifies, whose claims are the id, email and name of the user just created,
\* and a current-session query with that cookie returns that user.
C20_SignUpStartsSession ==
    /\ (last.op = "sign-up" /\ last.status = 201) =>
          /\ jar[last.client] # NoCookie
          /\ LET t == CookieValue(jar[last.client])
             IN  /\ verifyToken(t, key(env), t.payload.iat) # Null
                 /\ clock < t.payload.exp => verifyToken(t, key(env), clock) # Null
                 /\ ClaimsOf(t.payload) = last.user
                 /\ \E i \in 1..Len(users) : PublicUser(users[i]) = last.user
                 /\ GET(t, users, key(env), t.payload.iat) = [status |-> 200, user |-> last.user]
    /\ (/\ last.op = "me" /\ last.grant.by = "sign-up"
        /\ last.token = last.grant.token
        /\ last.at < last.token.payload.exp) =>
          last.resp = [status |-> 200, user |-> last.grant.user]

\* the query right after the registration, at the token's time of issue
C20_Witness ==
    /\ last.op = "me" /\ last.grant.by = "sign-up"
    /\ last.token = last.grant.token
    /\ last.at = last.token.payload.iat
    /\ last.resp.status = 200
    /\ last.resp.user = last.grant.user

\* C21: logout is served successfully only to a request whose session cookie
\* holds a token that verifies.
C21_LogoutNeedsSession ==
    (last.op = "logout" /\ last.status = 200) => last.authed

\* C22: once a sign-in has answered 200 the client's cookie holds the token of
\* the user who signed in, whatever session the cookie held before, and the
\* current-session query with that cookie returns that user until the token
\* expires.
C22_SignInReplacesSession ==
    /\ (last.op = "sign-in" /\ last.status = 200) =>
          /\ jar[last.client] # NoCookie
          /\ LET t == CookieValue(jar[last.client])
             IN  /\ ClaimsOf(t.payload) = last.user
                 /\ t.payload.email = last.req.email
                 /\ GET(t, users, key(env), t.payload.iat) = [status |-> 200, user |-> last.user]
    /\ (/\ last.op = "me" /\ last.via = "jar" /\ last.grant.by = "sign-in"
        /\ last.at < last.grant.token.payload.exp) =>
          last.resp = [status |-> 200, user |-> last.grant.user]

\* a client holding a valid session of one user has signed in as another
C22_Witness ==
    /\ last.op = "sign-in" /\ last.status = 200 /\ last.switched
    /\ ClaimsOf(CookieValue(jar[last.client]).payload) = last.user

\* C23: a copy of the token a client held when it logged out is, after the
\* logout and before the token's expiry, still verified, still let through to
\* the dashboard by the gate and still answered with its user by the
\* current-session query.
C23_LogoutRevokesNothing ==
    (/\ IsQuery /\ last.via = "copy" /\ last.token # NoCookie
     /\ last.at < last.token.payload.exp) =>
        /\ last.session = last.token.payload
        /\ verifyToken(last.token, key(env), last.at) = last.token.payload
        /\ (last.op = "gate" /\ UnderDashboard(last.path)) => last.decision = DecNext
        /\ last.op = "me" =>
              last.resp = [status |-> 200, user |-> ClaimsOf(last.token.payload)]

\* the query after the logout, with the copy, later than the token's issue
C23_Witness ==
    /\ last.op = "me" /\ last.via = "copy"
    /\ last.grant.by = "logout" /\ jar[last.client] = NoCookie
    /\ last.token # NoCookie /\ last.token.payload.iat < last.at
    /\ last.resp.status = 200

\* the status a sign-up or sign-in answered with
StatusOf(r) == IF "status" \in DOMAIN r THEN r.status ELSE r.resp.status

\* C24: a sign-up or sign-in that does not answer success (400, 401, 409 or
\* 500) leaves the user table and every session cookie as they were.
C24_FailureChangesNothing ==
    [][ (last'.op \in {"sign-up", "sign-in"} /\ StatusOf(last') \notin {200, 201}) =>
            (users' = users /\ jar' = jar) ]_vars

\* C25: whatever the cookie and the user table, a browser that keeps following
\* the gate's redirects and the dashboard's push to /sign-in comes to rest on
\* a page it is allowed to stay on, again and again; it never bounces forever.
C25_NavigationSettles == []<>(~NavPending)

\* the token a client was issued and its cookie still holds carries the id,
\* email and name of a stored user
IssuedTokensNameUsers ==
    \A c \in Clients :
        jar[c] # NoCookie =>
            \E i \in 1..Len(users) : PublicUser(users[i]) = ClaimsOf(jar[c].value.payload)

\* C26: every issued token names a stored user, so the current-session query
\* never answers 404 "User not found" for a token that passes verification.
C26_VerifiedTokenHasUser ==
    /\ IssuedTokensNameUsers
    /\ (last.op = "me" /\ last.session # Null) => last.resp.status # 404

====
